---- MODULE Spec2Model ----
(***************************************************************************)
(* The Create / Update / Read / Delete handlers of the Cosmos DB Mongo     *)
(* database resource                                                       *)
(* (azurerm/internal/services/cosmos/cosmosdb_mongo_database_resource.go)  *)
(* as a state machine.  Every remote call of a handler is one step, so     *)
(* that remote failures and out-of-band deletions interleave with the      *)
(* handler exactly where the code leaves room for them.                    *)
(*                                                                         *)
(* Conventions: the integer 0 is the null / unset value of `throughput`    *)
(* and of `autoscale_settings` (schema.ResourceData.GetOk reports the zero *)
(* value as "not set"); the empty sequence is the empty identifier.        *)
(***************************************************************************)
EXTENDS Integers, Sequences, FiniteSets, TLC

VARIABLES
    d,        \* schema.ResourceData as the handlers write it: id, throughput, autoscale
    cfg,      \* the desired configuration the running operation was given
    remote,   \* the control plane's record of the database
    op,       \* the handler the orchestrator invoked ("none" before the first)
    pc,       \* the position inside the handler ("idle" between operations)
    future,   \* the long-running-operation handle of the last submission
    calls,    \* the remote calls issued by the running operation, in order
    ret,      \* what the last handler returned
    pre,      \* d when the operation began
    preRead,  \* d when resourceCosmosDbMongoDatabaseRead was entered
    inRead,   \* resourceCosmosDbMongoDatabaseRead was entered in this operation
    acctMode, \* how this Read's account-get classified the account
    oob,      \* an out-of-band deletion happened during the operation
    firstId,  \* the id a successful Create persisted for the object that still exists
    collide   \* firstId as it was when the running Create began

vars == <<d, cfg, remote, op, pc, future, calls, ret, pre, preRead, inRead,
          acctMode, oob, firstId, collide>>

----------------------------------------------------------------------------
(* Bounds and value sets *)

MaxThroughputSteps == 2

ThroughputValues == {400 * i : i \in 1..MaxThroughputSteps}

AutoscaleValues == {4000}

Configs == [throughput : {0} \cup ThroughputValues,
            autoscale  : {0} \cup AutoscaleValues]

\* name, resource_group_name and account_name of the configuration (ForceNew).
Triple == <<"rg1", "acct1", "orders">>

EmptyId == << >>

----------------------------------------------------------------------------
(* Identifier codec *)

BuildId(t) ==
    <<"resourceGroups", t[1], "databaseAccounts", t[2], "mongodbDatabases", t[3]>>

\* An identifier of the version 0 layout, as an unvalidated import can leave it.
LegacyId == <<"resourceGroups", "rg1", "databaseAccounts", "acct1", "databases", "orders">>

GoodId == BuildId(Triple)

\* parse.MongodbDatabaseID: the three components, or an error.
MongodbDatabaseID(id) ==
    IF /\ Len(id) = 6
       /\ id[1] = "resourceGroups"
       /\ id[3] = "databaseAccounts"
       /\ id[5] = "mongodbDatabases"
       /\ id[2] # "" /\ id[4] # "" /\ id[6] # ""
    THEN [ok |-> TRUE, ResourceGroup |-> id[2], DatabaseAccountName |-> id[4], Name |-> id[6]]
    ELSE [ok |-> FALSE, ResourceGroup |-> "", DatabaseAccountName |-> "", Name |-> ""]

IdTarget_WrongName(p) == <<p.ResourceGroup, p.DatabaseAccountName, p.DatabaseAccountName>>

IdTarget(p) == <<p.ResourceGroup, p.DatabaseAccountName, p.Name>>

----------------------------------------------------------------------------
(* Capacity helpers of package common *)

\* int32(n) of a Go int.  validate.CosmosThroughput (line 68) keeps a configured
\* throughput far inside the 32-bit range, where the narrowing keeps the value;
\* TLC's integers end at that range.
Int32(n) == IF -2147483647 <= n /\ n <= 2147483647 THEN n ELSE 0 - 2147483647

\* common.ConvertThroughputFromResourceData: utils.Int32(int32(v.(int)))
ConvertThroughputFromResourceData(n) == Int32(n)

\* common.ExpandCosmosDbAutoscaleSettings: the max_throughput of the block.
ExpandCosmosDbAutoscaleSettings(c) == Int32(c.autoscale)

\* d.GetOk: the value and whether it is set (non-zero).
GetOk(v) == [value |-> v, ok |-> v # 0]

\* The capacity mode a persisted state shows.
PersistedMode(s) ==
    IF s.autoscale # 0 THEN "autoscale"
    ELSE IF s.throughput # 0 THEN "fixed" ELSE "unset"

\* common.CheckForChangeFromAutoscaleAndManualThroughput: TRUE when the update
\* crosses from one capacity mode to the other.
CheckForChangeFromAutoscaleAndManualThroughput(s, c) ==
    \/ PersistedMode(s) = "autoscale" /\ c.throughput # 0
    \/ PersistedMode(s) = "fixed" /\ c.autoscale # 0

\* common.HasThroughputChange: d.HasChanges("throughput", "autoscale_settings")
HasThroughputChange(s, c) ==
    \/ c.throughput # 0 /\ c.throughput # s.throughput
    \/ c.autoscale # 0 /\ c.autoscale # s.autoscale

\* common.ExpandCosmosDBThroughputSettingsUpdateParameters
ExpandCosmosDBThroughputSettingsUpdateParameters(c) ==
    [Throughput |-> IF GetOk(c.throughput).ok
                    THEN ConvertThroughputFromResourceData(c.throughput) ELSE 0,
     AutoscaleSettings |-> IF GetOk(c.autoscale).ok
                           THEN ExpandCosmosDbAutoscaleSettings(c) ELSE 0]

\* common.SetResourceDataThroughputFromResponse
SetResourceDataThroughputFromResponse(resp, s) ==
    [s EXCEPT !.throughput = resp.throughput, !.autoscale = resp.autoscale]

----------------------------------------------------------------------------
(* Request payloads *)

\* Options.Throughput is a pointer: ThroughputSet tells whether the field is
\* present in the payload, Throughput is the value it points at (0 when absent).
NoOptions == [ThroughputSet |-> FALSE, Throughput |-> 0, AutoscaleSettings |-> 0]

CreateOptions_DropThroughput(c) ==
    [ThroughputSet |-> FALSE,
     Throughput |-> 0,
     AutoscaleSettings |->
        IF GetOk(c.autoscale).ok THEN ExpandCosmosDbAutoscaleSettings(c) ELSE 0]

CreateOptions_AlwaysSendThroughput(c) ==
    [ThroughputSet |-> TRUE,
     Throughput |-> ConvertThroughputFromResourceData(c.throughput),
     AutoscaleSettings |->
        IF GetOk(c.autoscale).ok THEN ExpandCosmosDbAutoscaleSettings(c) ELSE 0]

\* Create, lines 98-115: Options of the create payload.
CreateOptions(c) ==
    [ThroughputSet |-> GetOk(c.throughput).ok /\ GetOk(c.throughput).value # 0,
     Throughput |->
        IF GetOk(c.throughput).ok /\ GetOk(c.throughput).value # 0
        THEN ConvertThroughputFromResourceData(c.throughput) ELSE 0,
     AutoscaleSettings |->
        IF GetOk(c.autoscale).ok THEN ExpandCosmosDbAutoscaleSettings(c) ELSE 0]

\* Update, lines 155-162: the payload carries the name and empty Options.
UpdateOptions(c) == NoOptions

----------------------------------------------------------------------------
(* The remote control plane, as the handlers' calls observe it *)

RemoteAbsent == [exists |-> FALSE, throughput |-> 0, autoscale |-> 0, idk |-> "good"]

IdKinds == {"nil", "empty", "good"}

\* The ID field of a get response: a nil pointer, or a string.
RespID(r) == [isNil |-> r.idk = "nil",
              val   |-> IF r.idk = "good" THEN GoodId ELSE EmptyId]

\* The remote holds one capacity mode at a time and refuses a request for both.
RemoteRejects(opts) == opts.Throughput # 0 /\ opts.AutoscaleSettings # 0

\* Idempotent upsert: an existing object keeps its record.
RemoteUpsert(r, opts, idk) ==
    IF r.exists THEN r
    ELSE [exists |-> TRUE, throughput |-> opts.Throughput,
          autoscale |-> opts.AutoscaleSettings, idk |-> idk]

\* Per-database capacity exists only on an object created with one.
RemoteHasCapacity(r) == r.exists /\ (r.throughput # 0 \/ r.autoscale # 0)

RemoteSetThroughput(r, p) ==
    IF RemoteHasCapacity(r)
    THEN [r EXCEPT !.throughput = p.Throughput, !.autoscale = p.AutoscaleSettings]
    ELSE r

\* Outcomes of get-by-identity for a target.
GetOutcomes(t) ==
    {"error"} \cup (IF remote.exists /\ t = Triple THEN {"found"} ELSE {"notfound"})

\* Outcomes of get-throughput and update-throughput for a target.
ThroughputOutcomes(t) ==
    {"error"} \cup (IF RemoteHasCapacity(remote) /\ t = Triple THEN {"ok"} ELSE {"notfound"})

\* Outcomes of the account get: a failure, a record without id, or a classified account.
AccountOutcomes == {"error", "noid", "serverless", "provisioned"}

\* isServerlessCapacityMode(accResp)
isServerlessCapacityMode(acc) == acc = "serverless"

----------------------------------------------------------------------------
(* Results and bookkeeping *)

\* A remote call: the API, the handler issuing it, its target, the Options or
\* throughput parameters it carries, and its outcome.
CallWith(c, by, t, o, out) == [c |-> c, by |-> by, t |-> t, opts |-> o, out |-> out]

Call(c, by, t, out) == CallWith(c, by, t, NoOptions, out)

NoRet == [kind |-> "none", db |-> "", acct |-> "", id |-> EmptyId]

Ok == [kind |-> "ok", db |-> "", acct |-> "", id |-> EmptyId]

\* fmt.Errorf(... %q (Account: %q) ...): an error naming database and account.
Err(kind, db, acct) == [kind |-> kind, db |-> db, acct |-> acct, id |-> EmptyId]

\* The error parse.MongodbDatabaseID returns, passed on as it is.
ParseError == [kind |-> "ParseError", db |-> "", acct |-> "", id |-> EmptyId]

\* A nil pointer dereference ends the handler with a runtime panic.
Panic == [kind |-> "panic", db |-> "", acct |-> "", id |-> EmptyId]

FreshData == [id |-> EmptyId, throughput |-> 0, autoscale |-> 0]

NoConfig == [throughput |-> 0, autoscale |-> 0]

Init ==
    /\ d = FreshData
    /\ cfg = NoConfig
    /\ remote = RemoteAbsent
    /\ op = "none"
    /\ pc = "idle"
    /\ future = "none"
    /\ calls = << >>
    /\ ret = NoRet
    /\ pre = FreshData
    /\ preRead = FreshData
    /\ inRead = FALSE
    /\ acctMode = "none"
    /\ oob = FALSE
    /\ firstId = EmptyId
    /\ collide = EmptyId

\* The handler returns r with ResourceData nd.
Return(r, nd) ==
    /\ ret' = r
    /\ d' = nd
    /\ pc' = "idle"
    /\ firstId' = IF op = "Create" /\ r.kind = "ok" /\ nd.id # EmptyId /\ remote'.exists
                  THEN nd.id
                  ELSE IF remote'.exists THEN firstId ELSE EmptyId

\* The handler goes on to step p with ResourceData nd.
Goto(p, nd) ==
    /\ pc' = p
    /\ d' = nd
    /\ ret' = ret
    /\ firstId' = IF remote'.exists THEN firstId ELSE EmptyId

\* The handler calls resourceCosmosDbMongoDatabaseRead(d, meta) with ResourceData nd.
EnterRead(nd) ==
    /\ Goto("r_fetch", nd)
    /\ preRead' = nd
    /\ inRead' = TRUE

\* The orchestrator invokes handler o, entering at p, with ResourceData nd and
\* configuration c.
Begin(o, p, nd, c) ==
    /\ pc = "idle"
    /\ op' = o
    /\ pc' = p
    /\ d' = nd
    /\ cfg' = c
    /\ pre' = nd
    /\ preRead' = nd
    /\ inRead' = (o = "Read")
    /\ acctMode' = "none"
    /\ future' = "none"
    /\ calls' = << >>
    /\ ret' = NoRet
    /\ oob' = FALSE
    /\ collide' = IF o = "Create" THEN firstId ELSE EmptyId
    /\ UNCHANGED <<remote, firstId>>

----------------------------------------------------------------------------
(* resourceCosmosDbMongoDatabaseCreate *)

CreateBegin == \E c \in Configs : Begin("Create", "c_probe", FreshData, c)

\* Line 91, existing.ID == nil && *existing.ID == "": the right operand is
\* evaluated only when ID is nil, and dereferences it; with an ID the test is false.
ExistingIdCheck(id) == IF id.isNil THEN "panic" ELSE "pass"

\* tf.ImportAsExistsError(type, *existing.ID)
ImportAsExistsError(id) ==
    [kind |-> "AlreadyExists", db |-> "", acct |-> "", id |-> id.val]

ProbeResult_NoCollision(out, id) ==
    IF out = "error" THEN Err("ProbeFailed", Triple[3], Triple[2]) ELSE NoRet

\* Lines 85-96: what the probe's outcome makes Create return (NoRet: go on).
ProbeResult(out, id) ==
    CASE out = "error" -> Err("ProbeFailed", Triple[3], Triple[2])
      [] out = "notfound" -> NoRet
      [] out = "found" ->
           IF ExistingIdCheck(id) = "panic" THEN Panic ELSE ImportAsExistsError(id)

\* Lines 85-96: the existence probe.
CreateProbe ==
    /\ pc = "c_probe"
    /\ UNCHANGED remote
    /\ \E out \in GetOutcomes(Triple) :
         /\ calls' = Append(calls, Call("Get", "Create", Triple, out))
         /\ IF ProbeResult(out, RespID(remote)) = NoRet
            THEN Goto("c_submit", d)
            ELSE Return(ProbeResult(out, RespID(remote)), d)
    /\ UNCHANGED <<cfg, op, future, pre, preRead, inRead, acctMode, oob, collide>>

\* Lines 98-120: build the payload and submit the create/update request.
CreateSubmit ==
    /\ pc = "c_submit"
    /\ UNCHANGED remote
    /\ \E out \in {"error"} \cup
                  (IF RemoteRejects(CreateOptions(cfg)) THEN {} ELSE {"accepted"}) :
         /\ calls' = Append(calls, CallWith("CreateUpdate", "Create", Triple,
                                            CreateOptions(cfg), out))
         /\ IF out = "error"
            THEN /\ Return(Err("SubmitFailed", Triple[3], Triple[2]), d)
                 /\ future' = "failed"
            ELSE /\ Goto("c_wait", d)
                 /\ future' = "pending"
    /\ UNCHANGED <<cfg, op, pre, preRead, inRead, acctMode, oob, collide>>

CreateWaitFails_Ignored(out) == FALSE

\* Line 122: err = future.WaitForCompletionRef(...); err != nil
CreateWaitFails(out) == out # "ok"

\* Lines 122-124: wait for the create/update to complete.  The remote performs
\* the upsert by the time the wait succeeds; a failed or cancelled wait says
\* nothing about whether it did.
CreateWait ==
    /\ pc = "c_wait"
    /\ \E out \in {"ok", "error"}, applied \in BOOLEAN, idk \in IdKinds :
         /\ out = "ok" => applied
         /\ calls' = Append(calls, Call("Wait", "Create", Triple, out))
         /\ remote' = IF applied THEN RemoteUpsert(remote, CreateOptions(cfg), idk)
                      ELSE remote
         /\ IF CreateWaitFails(out)
            THEN Return(Err("WaitFailed", Triple[3], Triple[2]), d)
            ELSE Goto("c_refetch", d)
    /\ future' = "none"
    /\ UNCHANGED <<cfg, op, pre, preRead, inRead, acctMode, oob, collide>>

RefetchData_SetIdFirst(s, out, id) == [s EXCEPT !.id = id.val]

\* Lines 126-135: d.SetId(*resp.ID) runs only after the error and nil checks.
RefetchData(s, out, id) ==
    IF out = "found" /\ ~id.isNil THEN [s EXCEPT !.id = id.val] ELSE s

\* Lines 126-137: re-fetch, take the id, and enter Read.
CreateRefetch ==
    /\ pc = "c_refetch"
    /\ UNCHANGED remote
    /\ \E out \in GetOutcomes(Triple) :
         /\ calls' = Append(calls, Call("Get", "Create", Triple, out))
         /\ IF out # "found"
            THEN /\ Return(Err("RefetchFailed", Triple[3], Triple[2]),
                           RefetchData(d, out, RespID(remote)))
                 /\ UNCHANGED <<preRead, inRead>>
            ELSE IF RespID(remote).isNil
            THEN /\ Return(Err("NoID", Triple[3], Triple[2]),
                           RefetchData(d, out, RespID(remote)))
                 /\ UNCHANGED <<preRead, inRead>>
            ELSE EnterRead(RefetchData(d, out, RespID(remote)))
    /\ UNCHANGED <<cfg, op, future, pre, acctMode, oob, collide>>

----------------------------------------------------------------------------
(* resourceCosmosDbMongoDatabaseRead *)

ReadBegin == d.id # EmptyId /\ Begin("Read", "r_fetch", d, NoConfig)

NotFoundData_Keep(s) == s

\* Line 210: d.SetId("")
NotFoundData(s) == [s EXCEPT !.id = EmptyId]

ReadIsNotFound_AnyFailure(out) == out # "found"

\* Line 208: utils.ResponseWasNotFound(resp.Response)
ReadIsNotFound(out) == out = "notfound"

\* Lines 201-215: parse the id and fetch the base record.
ReadFetch ==
    /\ pc = "r_fetch"
    /\ UNCHANGED remote
    /\ LET id == MongodbDatabaseID(d.id) IN
       IF ~id.ok
       THEN /\ calls' = calls
            /\ Return(ParseError, d)
       ELSE \E out \in GetOutcomes(IdTarget(id)) :
              /\ calls' = Append(calls, Call("Get", "Read", IdTarget(id), out))
              /\ IF out = "found" THEN Goto("r_account", d)
                 ELSE IF ReadIsNotFound(out) THEN Return(Ok, NotFoundData(d))
                 ELSE Return(Err("ReadFailed", id.Name, id.DatabaseAccountName), d)
    /\ UNCHANGED <<cfg, op, future, pre, preRead, inRead, acctMode, oob, collide>>

QueriesThroughput_Always(acc) == TRUE

\* Line 235: the throughput query is made unless the account is serverless.
QueriesThroughput(acc) == ~isServerlessCapacityMode(acc)

\* Lines 225-235: get the account and classify its capacity mode.
ReadAccount ==
    /\ pc = "r_account"
    /\ UNCHANGED remote
    /\ LET id == MongodbDatabaseID(d.id) IN
       \E acc \in AccountOutcomes :
         /\ calls' = Append(calls, Call("AccountGet", "Read",
                              <<id.ResourceGroup, id.DatabaseAccountName>>, acc))
         /\ acctMode' = acc
         /\ CASE acc = "error" -> Return(Err("AccountFailed", "", id.DatabaseAccountName), d)
              [] acc = "noid" -> Return(Err("AccountIdEmpty", "", id.DatabaseAccountName), d)
              [] OTHER ->
                   IF QueriesThroughput(acc)
                   THEN Goto("r_throughput", d)
                   ELSE Return(Ok, d)
    /\ UNCHANGED <<cfg, op, future, pre, preRead, inRead, oob, collide>>

ThroughputErrorData_Clear(s) == [s EXCEPT !.throughput = 0, !.autoscale = 0]

\* Lines 238-239: a throughput query failure other than not-found returns at once.
ThroughputErrorData(s) == s

ThroughputNotFoundData_Keep(s) == s

\* Lines 241-242: d.Set("throughput", nil); d.Set("autoscale_settings", nil)
ThroughputNotFoundData(s) == [s EXCEPT !.throughput = 0, !.autoscale = 0]

\* Lines 236-249: query the throughput of a provisioned account's database.
ReadThroughput ==
    /\ pc = "r_throughput"
    /\ UNCHANGED remote
    /\ LET id == MongodbDatabaseID(d.id) IN
       \E out \in ThroughputOutcomes(IdTarget(id)) :
         /\ calls' = Append(calls, Call("GetThroughput", "Read", IdTarget(id), out))
         /\ CASE out = "error" ->
                   Return(Err("ThroughputReadFailed", id.Name, id.DatabaseAccountName),
                          ThroughputErrorData(d))
              [] out = "notfound" ->
                   Return(Ok, ThroughputNotFoundData(d))
              [] out = "ok" ->
                   Return(Ok, SetResourceDataThroughputFromResponse(
                                [throughput |-> remote.throughput,
                                 autoscale |-> remote.autoscale], d))
    /\ UNCHANGED <<cfg, op, future, pre, preRead, inRead, acctMode, oob, collide>>

----------------------------------------------------------------------------
(* resourceCosmosDbMongoDatabaseUpdate *)

UpdateBegin == d.id # EmptyId /\ \E c \in Configs : Begin("Update", "u_submit", d, c)

UpdatePrecheck_NoConflictCheck(s, c) ==
    IF ~MongodbDatabaseID(s.id).ok THEN "parse" ELSE "go"

UpdatePrecheck_NoParseCheck(s, c) ==
    IF CheckForChangeFromAutoscaleAndManualThroughput(s, c) THEN "conflict" ELSE "go"

\* Lines 145-153: the checks made before any remote call.
UpdatePrecheck(s, c) ==
    IF ~MongodbDatabaseID(s.id).ok THEN "parse"
    ELSE IF CheckForChangeFromAutoscaleAndManualThroughput(s, c) THEN "conflict"
    ELSE "go"

\* Lines 145-167: parse the id, check the capacity-mode change, resubmit the upsert.
UpdateSubmit ==
    /\ pc = "u_submit"
    /\ UNCHANGED remote
    /\ LET id == MongodbDatabaseID(d.id) IN
       CASE UpdatePrecheck(d, cfg) = "parse" ->
              /\ UNCHANGED <<calls, future>>
              /\ Return(ParseError, d)
         [] UpdatePrecheck(d, cfg) = "conflict" ->
              /\ UNCHANGED <<calls, future>>
              /\ Return(Err("ConflictingCapacityMode", id.Name, id.DatabaseAccountName), d)
         [] OTHER ->
              \E out \in {"error", "accepted"} :
                /\ calls' = Append(calls, CallWith("CreateUpdate", "Update", IdTarget(id),
                                                   UpdateOptions(cfg), out))
                /\ IF out = "error"
                   THEN /\ Return(Err("SubmitFailed", id.Name, id.DatabaseAccountName), d)
                        /\ future' = "failed"
                   ELSE /\ Goto("u_wait", d)
                        /\ future' = "pending"
    /\ UNCHANGED <<cfg, op, pre, preRead, inRead, acctMode, oob, collide>>

UpdateNeedsThroughput_Always(s, c) == TRUE

\* Line 173: if common.HasThroughputChange(d)
UpdateNeedsThroughput(s, c) == HasThroughputChange(s, c)

\* Lines 169-173: wait for the upsert, then branch on the throughput change.
UpdateWait ==
    /\ pc = "u_wait"
    /\ LET id == MongodbDatabaseID(d.id) IN
       \E out \in {"ok", "error"}, applied \in BOOLEAN, idk \in IdKinds :
         /\ out = "ok" => applied
         /\ calls' = Append(calls, Call("Wait", "Update", IdTarget(id), out))
         /\ remote' = IF applied THEN RemoteUpsert(remote, UpdateOptions(cfg), idk)
                      ELSE remote
         /\ IF out = "error"
            THEN Return(Err("WaitFailed", id.Name, id.DatabaseAccountName), d)
            ELSE IF UpdateNeedsThroughput(d, cfg)
            THEN Goto("u_throughput", d)
            ELSE Goto("u_refetch", d)
    /\ future' = "none"
    /\ UNCHANGED <<cfg, op, pre, preRead, inRead, acctMode, oob, collide>>

\* Lines 174-181: submit the throughput update.  Only a not-found failure
\* returns; any other failure falls through to the wait on the returned future.
UpdateThroughput ==
    /\ pc = "u_throughput"
    /\ UNCHANGED remote
    /\ LET id == MongodbDatabaseID(d.id)
           p  == ExpandCosmosDBThroughputSettingsUpdateParameters(cfg) IN
       \E out \in ThroughputOutcomes(IdTarget(id)) \ (IF RemoteRejects(p) THEN {"ok"} ELSE {}) :
         /\ calls' = Append(calls, CallWith("UpdateThroughput", "Update", IdTarget(id), p, out))
         /\ CASE out = "notfound" ->
                   /\ Return(Err("ThroughputNotFound", id.Name, id.DatabaseAccountName), d)
                   /\ future' = "failed"
              [] out = "error" ->
                   /\ Goto("u_twait", d)
                   /\ future' = "failed"
              [] out = "ok" ->
                   /\ Goto("u_twait", d)
                   /\ future' = "pending"
    /\ UNCHANGED <<cfg, op, pre, preRead, inRead, acctMode, oob, collide>>

\* Lines 183-185: wait on the throughput future.  The future of a submission
\* that failed holds no operation: the wait changes nothing remotely, and what
\* it reports is the SDK's to decide.
UpdateThroughputWait ==
    /\ pc = "u_twait"
    /\ LET id == MongodbDatabaseID(d.id)
           p  == ExpandCosmosDBThroughputSettingsUpdateParameters(cfg) IN
       \E out \in {"ok", "error"}, applied \in BOOLEAN :
         /\ out = "ok" /\ future = "pending" => applied
         /\ future = "failed" => ~applied
         /\ calls' = Append(calls, Call("ThroughputWait", "Update", IdTarget(id), out))
         /\ remote' = IF applied THEN RemoteSetThroughput(remote, p) ELSE remote
         /\ IF out = "error"
            THEN Return(Err("ThroughputWaitFailed", id.Name, id.DatabaseAccountName), d)
            ELSE Goto("u_refetch", d)
    /\ future' = "none"
    /\ UNCHANGED <<cfg, op, pre, preRead, inRead, acctMode, oob, collide>>

\* Lines 188-192: re-fetch to confirm, then enter Read.
UpdateRefetch ==
    /\ pc = "u_refetch"
    /\ UNCHANGED remote
    /\ LET id == MongodbDatabaseID(d.id) IN
       \E out \in GetOutcomes(IdTarget(id)) :
         /\ calls' = Append(calls, Call("Get", "Update", IdTarget(id), out))
         /\ IF out # "found"
            THEN /\ Return(Err("RefetchFailed", id.Name, id.DatabaseAccountName), d)
                 /\ UNCHANGED <<preRead, inRead>>
            ELSE EnterRead(d)
    /\ UNCHANGED <<cfg, op, future, pre, acctMode, oob, collide>>

----------------------------------------------------------------------------
(* resourceCosmosDbMongoDatabaseDelete *)

DeleteBegin == d.id # EmptyId /\ Begin("Delete", "d_submit", d, NoConfig)

\* Lines 257-267: parse the id and submit the delete.  A not-found failure is
\* not returned; the handler goes on to the wait.
DeleteSubmit ==
    /\ pc = "d_submit"
    /\ UNCHANGED remote
    /\ LET id == MongodbDatabaseID(d.id) IN
       IF ~id.ok
       THEN /\ UNCHANGED <<calls, future>>
            /\ Return(ParseError, d)
       ELSE \E out \in {"error", "accepted"} \cup
                       (IF remote.exists THEN {} ELSE {"notfound"}) :
              /\ calls' = Append(calls, Call("Delete", "Delete", IdTarget(id), out))
              /\ CASE out = "error" ->
                        /\ Return(Err("DeleteFailed", id.Name, id.DatabaseAccountName), d)
                        /\ future' = "failed"
                   [] out = "notfound" ->
                        /\ Goto("d_wait", d)
                        /\ future' = "failed"
                   [] out = "accepted" ->
                        /\ Goto("d_wait", d)
                        /\ future' = "pending"
    /\ UNCHANGED <<cfg, op, pre, preRead, inRead, acctMode, oob, collide>>

DeleteData_AlwaysCleared(s, out) == [s EXCEPT !.id = EmptyId]

\* Lines 270-274: the error return leaves d alone; after return nil the
\* identifier is removed.
DeleteData(s, out) == IF out = "error" THEN s ELSE [s EXCEPT !.id = EmptyId]

\* Lines 269-274: wait on the delete future.  On a nil return the orchestrator
\* removes the resource's identifier from the persisted state.
DeleteWait ==
    /\ pc = "d_wait"
    /\ LET id == MongodbDatabaseID(d.id) IN
       \E out \in {"ok", "error"}, applied \in BOOLEAN :
         /\ out = "ok" /\ future = "pending" => applied
         /\ future = "failed" => ~applied
         /\ calls' = Append(calls, Call("Wait", "Delete", IdTarget(id), out))
         /\ remote' = IF applied THEN RemoteAbsent ELSE remote
         /\ IF out = "error"
            THEN Return(Err("WaitFailed", id.Name, id.DatabaseAccountName),
                        DeleteData(d, out))
            ELSE Return(Ok, DeleteData(d, out))
    /\ future' = "none"
    /\ UNCHANGED <<cfg, op, pre, preRead, inRead, acctMode, oob, collide>>

----------------------------------------------------------------------------
(* The surroundings *)

\* Line 33, pluginsdk.DefaultImporter(): the id given on import is stored unvalidated.
Import == \E i \in {GoodId, LegacyId} :
    Begin("Import", "idle", [FreshData EXCEPT !.id = i], NoConfig)

\* The remote object is deleted by someone else.
OutOfBandDelete ==
    /\ remote.exists
    /\ remote' = RemoteAbsent
    /\ oob' = TRUE
    /\ firstId' = EmptyId
    /\ UNCHANGED <<d, cfg, op, pc, future, calls, ret, pre, preRead, inRead, acctMode, collide>>

Next ==
    \/ CreateBegin \/ CreateProbe \/ CreateSubmit \/ CreateWait \/ CreateRefetch
    \/ ReadBegin \/ ReadFetch \/ ReadAccount \/ ReadThroughput
    \/ UpdateBegin \/ UpdateSubmit \/ UpdateWait \/ UpdateThroughput
    \/ UpdateThroughputWait \/ UpdateRefetch
    \/ DeleteBegin \/ DeleteSubmit \/ DeleteWait
    \/ Import \/ OutOfBandDelete

Spec == Init /\ [][Next]_vars

----------------------------------------------------------------------------
(* Vocabulary of the properties *)

Issued(c) == \E i \in 1..Len(calls) : calls[i].c = c

IssuedWith(c, by, out) ==
    \E i \in 1..Len(calls) : calls[i].c = c /\ calls[i].by = by /\ calls[i].out = out

\* Handler o has returned.
Returned(o) == op = o /\ pc = "idle" /\ ret.kind # "none"

\* The handler returned an error.
Failed == ret.kind \notin {"none", "ok", "panic"}

\* resourceCosmosDbMongoDatabaseRead ran in this operation and has returned.
ReadReturned == inRead /\ pc = "idle" /\ ret.kind # "none"

BothSet(o) == o.Throughput # 0 /\ o.AutoscaleSettings # 0

\* The persisted state shows one capacity mode and the configuration sets the other.
Crossover(s, c) ==
    \/ s.throughput # 0 /\ s.autoscale = 0 /\ c.autoscale # 0
    \/ s.autoscale # 0 /\ c.throughput # 0

----------------------------------------------------------------------------
(* C1 *)

----------------------------------------------------------------------------
(* C2 *)

\* C2: the create payload Create submits has at most one of Options.Throughput
\* and Options.AutoscaleSettings set, and a configuration that supplies both is
\* rejected with ConflictingCapacityMode without any create/update request.
C2_CapacityExclusivity ==
    op = "Create" =>
        /\ \A i \in 1..Len(calls) :
             calls[i].c = "CreateUpdate" => ~BothSet(calls[i].opts)
        /\ (cfg.throughput # 0 /\ cfg.autoscale # 0) =>
             /\ ~Issued("CreateUpdate")
             /\ (pc = "idle" /\ IssuedWith("Get", "Create", "notfound"))
                    => ret.kind = "ConflictingCapacityMode"

----------------------------------------------------------------------------
(* C3 *)

\* C3 as stated: whenever Create returns an error, a failure inside the
\* trailing Read included, the persisted identifier is still empty.
C3_Original == (Returned("Create") /\ Failed) => d.id = EmptyId

\* C3, amended: whenever Create returns an error raised before the trailing
\* Read (probe failure, collision, submit failure, wait failure, re-fetch
\* failure, missing identifier), the persisted identifier is still empty.
C3_NoCommitBeforeRead ==
    (Returned("Create") /\ Failed /\ ~inRead) =>
        /\ d.id = EmptyId
        /\ ret.kind \in {"ProbeFailed", "AlreadyExists", "SubmitFailed",
                         "WaitFailed", "RefetchFailed", "NoID"}

C3_Witness ==
    /\ Returned("Create")
    /\ ret.kind = "NoID"
    /\ remote.exists
    /\ d.id = EmptyId

----------------------------------------------------------------------------
(* C4 *)

\* C4 as stated: a Create for a triple whose earlier Create succeeded and
\* whose remote object still exists fails with AlreadyExists carrying the
\* identifier the first call persisted, and submits no create/update request.
C4_Original ==
    (Returned("Create") /\ collide # EmptyId /\ ~oob) =>
        /\ ret.kind = "AlreadyExists"
        /\ ret.id = collide
        /\ ~Issued("CreateUpdate")

\* C4, amended: such a Create submits no create/update request and fails, with
\* AlreadyExists carrying the identifier the first call persisted, or with the
\* probe's own failure when the probe fails for a reason other than not-found.
C4_Collision ==
    (Returned("Create") /\ collide # EmptyId /\ ~oob) =>
        /\ ~Issued("CreateUpdate")
        /\ \/ ret.kind = "AlreadyExists" /\ ret.id = collide
           \/ ret.kind = "ProbeFailed" /\ IssuedWith("Get", "Create", "error")

C4_Witness ==
    /\ Returned("Create")
    /\ collide = GoodId
    /\ ~oob
    /\ ret.kind = "AlreadyExists"
    /\ ret.id = collide

----------------------------------------------------------------------------
(* C5 *)

\* C5: when the delete submission reports not-found, Delete returns success
\* and the persisted state is cleared.
C5_DeleteAbsent ==
    (Returned("Delete") /\ IssuedWith("Delete", "Delete", "notfound")) =>
        /\ ret.kind = "ok"
        /\ d.id = EmptyId

----------------------------------------------------------------------------
(* C6 *)

\* C6: once the base-record fetch of a Read with a well-formed identifier
\* reports not-found, Read has returned without error, the persisted
\* identifier is empty, and no account-get or get-throughput call was issued.
C6_DriftSelfHeal ==
    IssuedWith("Get", "Read", "notfound") =>
        /\ pc = "idle"
        /\ ret.kind = "ok"
        /\ d.id = EmptyId
        /\ ~Issued("AccountGet")
        /\ ~Issued("GetThroughput")

C6_Witness ==
    /\ op = "Read"
    /\ IssuedWith("Get", "Read", "notfound")
    /\ preRead.id = GoodId
    /\ d.id = EmptyId
    /\ ret.kind = "ok"

----------------------------------------------------------------------------
(* C7 *)

\* C7: an Update whose persisted state shows one capacity mode and whose
\* desired configuration sets the other fails with ConflictingCapacityMode;
\* it issues no remote call and leaves the persisted state unchanged.
C7_CrossoverRejected ==
    (op = "Update" /\ Crossover(pre, cfg)) =>
        /\ calls = << >>
        /\ d = pre
        /\ pc \in {"u_submit", "idle"}
        /\ pc = "idle" => ret.kind = "ConflictingCapacityMode"

C7_Witness ==
    /\ Returned("Update")
    /\ pre.throughput # 0 /\ pre.autoscale = 0 /\ cfg.autoscale # 0
    /\ ret.kind = "ConflictingCapacityMode"

----------------------------------------------------------------------------
(* C8 *)

\* C8: whenever Read returns an error, the persisted identifier, throughput
\* and autoscale_settings are what they were when the Read began, and the
\* identifier is not cleared.
C8_ReadFailureKeepsState ==
    (ReadReturned /\ Failed) =>
        /\ d.id = preRead.id
        /\ d.throughput = preRead.throughput
        /\ d.autoscale = preRead.autoscale
        /\ preRead.id # EmptyId => d.id # EmptyId
        /\ op # "Create" => d.id # EmptyId

C8_Witness ==
    /\ ReadReturned
    /\ ret.kind = "ThroughputReadFailed"
    /\ preRead.throughput # 0
    /\ d = preRead

----------------------------------------------------------------------------
(* C9 *)

\* C9: after a successful Create with throughput n > 0 and no autoscale
\* settings against a provisioned account, with no out-of-band change, the
\* persisted throughput is n and autoscale_settings is null, as the
\* get-throughput response of the trailing Read reported them.
C9_CreateReadRoundTrip ==
    (/\ Returned("Create") /\ ret.kind = "ok"
     /\ cfg.throughput # 0 /\ cfg.autoscale = 0
     /\ acctMode = "provisioned" /\ ~oob) =>
        /\ d.throughput = cfg.throughput
        /\ d.autoscale = 0
        /\ IssuedWith("GetThroughput", "Read", "ok")

C9_Witness ==
    /\ Returned("Create") /\ ret.kind = "ok"
    /\ cfg.throughput = 400 /\ cfg.autoscale = 0
    /\ acctMode = "provisioned" /\ ~oob
    /\ d.throughput = 400

----------------------------------------------------------------------------
(* C10 *)

\* C10: whenever the update-throughput call returns an error of any kind,
\* Update returns an error naming the database and the account, and issues
\* nothing after that call: no wait on its future, no re-fetch, no Read.
C10_ThroughputFailureFatal ==
    \A i \in 1..Len(calls) :
        (calls[i].c = "UpdateThroughput" /\ calls[i].out \in {"error", "notfound"}) =>
            /\ i = Len(calls)
            /\ pc = "idle"
            /\ Failed
            /\ ret.db # "" /\ ret.acct # ""

----------------------------------------------------------------------------
(* C11 *)

\* C11: once the completion wait on Create's create/update future has failed,
\* Create has returned the wait error, the wait is the last remote call it
\* issued (no re-fetch, no Read), and the persisted identifier is empty,
\* whether or not the remote has created the object.
C11_WaitFailureFatal ==
    IssuedWith("Wait", "Create", "error") =>
        /\ pc = "idle"
        /\ ret.kind = "WaitFailed"
        /\ calls[Len(calls)].c = "Wait"
        /\ ~inRead
        /\ d.id = EmptyId

C11_Witness ==
    /\ Returned("Create")
    /\ IssuedWith("Wait", "Create", "error")
    /\ remote.exists
    /\ d.id = EmptyId

----------------------------------------------------------------------------
(* C12 *)

\* C12: in Update the update-throughput call is the third call, issued after
\* the create/update submission was accepted and its wait succeeded, and only
\* when a throughput change is flagged; the re-fetch and every call of the
\* trailing Read come after a successful create/update wait and, when the
\* update-throughput call was issued, after a successful wait on its future.
C12_UpdateCallOrder ==
    op = "Update" =>
        \A i \in 1..Len(calls) :
            /\ calls[i].c = "UpdateThroughput" =>
                 /\ i = 3
                 /\ calls[1].c = "CreateUpdate" /\ calls[1].out = "accepted"
                 /\ calls[2].c = "Wait" /\ calls[2].out = "ok"
                 /\ HasThroughputChange(pre, cfg)
            /\ (calls[i].c = "Get" \/ calls[i].by = "Read") =>
                 /\ i > 2
                 /\ calls[1].c = "CreateUpdate" /\ calls[1].out = "accepted"
                 /\ calls[2].c = "Wait" /\ calls[2].out = "ok"
                 /\ Issued("UpdateThroughput") =>
                      /\ i > 4
                      /\ calls[3].c = "UpdateThroughput"
                      /\ calls[4].c = "ThroughputWait" /\ calls[4].out = "ok"

C12_Witness ==
    /\ Returned("Update")
    /\ ret.kind = "ok"
    /\ Len(calls) > 5
    /\ calls[3].c = "UpdateThroughput" /\ calls[3].out = "ok"
    /\ calls[4].c = "ThroughputWait" /\ calls[4].out = "ok"
    /\ calls[5].c = "Get" /\ calls[5].by = "Update"
    /\ calls[6].c = "Get" /\ calls[6].by = "Read"

----------------------------------------------------------------------------
(* C13 *)

\* C13: when Create's re-fetch (its fourth call) succeeds and the record it
\* returns carries an identifier that is nil or the empty string, Create has
\* returned the 'Error getting ID' error, the persisted identifier is unset
\* and Read has not run.
C13_EmptyIdAfterCreate ==
    ( /\ op = "Create"
      /\ Len(calls) >= 4
      /\ calls[4].c = "Get" /\ calls[4].by = "Create" /\ calls[4].out = "found"
      /\ remote.exists
      /\ remote.idk \in {"nil", "empty"} ) =>
        /\ pc = "idle"
        /\ ret.kind = "NoID"
        /\ ~inRead
        /\ d.id = EmptyId

----------------------------------------------------------------------------
(* C14 *)

\* C14: in Delete, once the delete submission has failed for a reason other
\* than not-found, or the completion wait has failed, Delete has returned an
\* error and the persisted state is what it was before the operation; the
\* persisted state differs from what it was only after Delete returned
\* success, and then the identifier is gone.
C14_DeleteFailureKeepsState ==
    op = "Delete" =>
        /\ ( IssuedWith("Delete", "Delete", "error")
             \/ IssuedWith("Wait", "Delete", "error") ) =>
               /\ pc = "idle"
               /\ Failed
               /\ d = pre
        /\ d # pre =>
               /\ pc = "idle"
               /\ ret.kind = "ok"
               /\ d.id = EmptyId

C14_Witness ==
    /\ Returned("Delete")
    /\ IssuedWith("Delete", "Delete", "accepted")
    /\ IssuedWith("Wait", "Delete", "error")
    /\ ret.kind = "WaitFailed"
    /\ d.id = GoodId
    /\ d = pre

----------------------------------------------------------------------------
(* C15 *)

\* C15: when Read has returned after its get-throughput call (which it makes
\* only on an account classified as provisioned), a not-found outcome gave
\* success with throughput and autoscale_settings both null, any other
\* failure gave the throughput read error, and a successful outcome gave
\* success with the capacity fields equal to the remote object's.
C15_ThroughputQueryOutcome ==
    (ReadReturned /\ calls # << >> /\ calls[Len(calls)].c = "GetThroughput") =>
        LET out == calls[Len(calls)].out IN
        /\ acctMode = "provisioned"
        /\ out = "notfound" =>
             /\ ret.kind = "ok"
             /\ d.throughput = 0
             /\ d.autoscale = 0
        /\ out = "error" => ret.kind = "ThroughputReadFailed"
        /\ out = "ok" =>
             /\ ret.kind = "ok"
             /\ remote.exists =>
                  /\ d.throughput = remote.throughput
                  /\ d.autoscale = remote.autoscale

C15_Witness ==
    /\ ReadReturned
    /\ calls # << >>
    /\ calls[Len(calls)].c = "GetThroughput"
    /\ calls[Len(calls)].out = "notfound"
    /\ preRead.throughput # 0
    /\ d.throughput = 0
    /\ ret.kind = "ok"

----------------------------------------------------------------------------
(* C16 *)

\* C16: in Update, Read and Delete started on a persisted identifier that
\* does not parse, no remote call is ever issued, the persisted state stays
\* what it was, and the operation returns the parse error.
C16_MalformedIdFailsFast ==
    (op \in {"Update", "Read", "Delete"} /\ ~MongodbDatabaseID(pre.id).ok) =>
        /\ calls = << >>
        /\ d = pre
        /\ pc = "idle" => ret.kind = "ParseError"

C16_Witness ==
    /\ Returned("Update")
    /\ pre.id = LegacyId
    /\ ret.kind = "ParseError"
    /\ calls = << >>
    /\ d = pre

----------------------------------------------------------------------------
(* C17 *)

\* C17 as stated: whenever Create has returned without error, the persisted
\* identifier is non-empty and equals the identifier the re-fetch returned.
C17_Original ==
    (Returned("Create") /\ ret.kind = "ok") =>
        /\ d.id # EmptyId
        /\ d.id = preRead.id

\* C17: whenever Create has returned without error, the re-fetch returned a
\* non-empty identifier, and the persisted identifier equals it unless the
\* trailing Read's base fetch found the object gone after an out-of-band
\* deletion, in which case the persisted identifier is empty.
C17_SuccessfulCreateState ==
    (Returned("Create") /\ ret.kind = "ok") =>
        /\ preRead.id # EmptyId
        /\ IF IssuedWith("Get", "Read", "notfound")
           THEN oob /\ d.id = EmptyId
           ELSE d.id = preRead.id

C17_Witness ==
    /\ Returned("Create")
    /\ ret.kind = "ok"
    /\ IssuedWith("Get", "Create", "found")
    /\ IssuedWith("Get", "Read", "notfound")
    /\ preRead.id = GoodId
    /\ d.id = EmptyId

----------------------------------------------------------------------------
(* C18 *)

\* C18: when Create's existence probe (its first call) found the object and
\* the record's identifier is nil or empty, Create has returned the 'Error
\* generating import ID' error: it has not dereferenced a nil identifier and
\* has not returned AlreadyExists carrying an empty identifier.
C18_ProbeMissingId ==
    ( /\ op = "Create"
      /\ calls # << >>
      /\ calls[1].c = "Get" /\ calls[1].out = "found"
      /\ remote.exists
      /\ remote.idk \in {"nil", "empty"} ) =>
        /\ ret.kind # "panic"
        /\ ~(ret.kind = "AlreadyExists" /\ ret.id = EmptyId)
        /\ ret.kind = "ImportIdMissing"

----------------------------------------------------------------------------
(* C19 *)

\* C19: every remote call issued during Update addresses the resource group,
\* account and name parsed from the identifier persisted before the
\* operation (the account get addresses that resource group and account),
\* and when no out-of-band deletion has occurred during the operation the
\* persisted identifier equals the one before it, whatever Update returns.
C19_UpdateNeverRetargets ==
    op = "Update" =>
        LET p == MongodbDatabaseID(pre.id) IN
        /\ \A i \in 1..Len(calls) :
             calls[i].t = IF calls[i].c = "AccountGet"
                          THEN <<p.ResourceGroup, p.DatabaseAccountName>>
                          ELSE <<p.ResourceGroup, p.DatabaseAccountName, p.Name>>
        /\ ~oob => d.id = pre.id

C19_Witness ==
    /\ Returned("Update")
    /\ ret.kind = "ok"
    /\ ~oob
    /\ IssuedWith("CreateUpdate", "Update", "accepted")
    /\ IssuedWith("UpdateThroughput", "Update", "ok")
    /\ IssuedWith("Get", "Update", "found")
    /\ IssuedWith("GetThroughput", "Read", "ok")
    /\ pre.id = GoodId
    /\ d.id = pre.id
    /\ d.throughput # pre.throughput

----------------------------------------------------------------------------
(* C20 *)

\* C20: in every create/update request Create submits, Options.Throughput is
\* either absent or a non-zero value equal to the desired throughput, and it
\* is absent when the desired throughput is unset or 0.
C20_ZeroThroughputNeverSent ==
    op = "Create" =>
        \A i \in 1..Len(calls) :
            calls[i].c = "CreateUpdate" =>
                LET o == calls[i].opts IN
                /\ o.ThroughputSet =>
                     /\ o.Throughput # 0
                     /\ o.Throughput = cfg.throughput
                /\ cfg.throughput = 0 => ~o.ThroughputSet

C20_Witness ==
    /\ op = "Create"
    /\ cfg.throughput = 0
    /\ IssuedWith("CreateUpdate", "Create", "accepted")
    /\ \A i \in 1..Len(calls) :
         calls[i].c = "CreateUpdate" => ~calls[i].opts.ThroughputSet

====
